---- MODULE Spec2Model ----
(***************************************************************************)
(* Model of the Flight SQL bulk-ingest handler of src/main.rs              *)
(* (FlightSql::do_put_statement_ingest) and of the two worker pools that   *)
(* main() sets up.                                                         *)
(*                                                                         *)
(* A request owns a chunk stream (FlightData messages).  The handler peeks *)
(* the first chunk, decodes the schema, composes and parses the table      *)
(* path, builds a ParquetSink with InsertOp::Overwrite and runs write_all  *)
(* either inline (network pool) or on the dedicated executor.              *)
(*                                                                         *)
(* Row counts stay far below 2^63, so the final `as i64` cast of line 127  *)
(* is value preserving on every input the model draws.                     *)
(***************************************************************************)
EXTENDS Integers, Sequences, FiniteSets, TLC

\* ------------------------------------------------------------------ bounds
MaxBatches == 2       \* chunks after the first one, single-request runs
ConcMaxBatches == 1   \* chunks after the first one, concurrent runs
MaxRows == 2          \* rows carried by one batch
NetWorkers == 1       \* worker threads of the #[tokio::main] runtime
ExecWorkers == 1      \* worker threads of the dedicated executor

Requests == {1, 2}

\* ------------------------------------------------------------------ chunks
SchemaChunk == [k |-> "schema", n |-> 0]
BadSchemaChunk == [k |-> "badschema", n |-> 0]
BatchChunk(rows) == [k |-> "batch", n |-> rows]
BadBatchChunk == [k |-> "badbatch", n |-> 1]
ErrChunk == [k |-> "err", n |-> 0]

BodyChunks == {BatchChunk(rows) : rows \in 1..MaxRows} \cup {BadBatchChunk}
FirstChunks == {SchemaChunk, BadSchemaChunk, ErrChunk}

RECURSIVE SeqsUpTo(_, _)
SeqsUpTo(S, len) ==
    IF len = 0 THEN {<<>>}
    ELSE LET shorter == SeqsUpTo(S, len - 1)
         IN shorter \cup {Append(s, x) : s \in {t \in shorter : Len(t) = len - 1}, x \in S}

\* every stream a client can put on the wire: nothing at all, or a first
\* chunk followed by at most maxBody further chunks
Streams(maxBody) ==
    {<<>>} \cup {<<f>> \o b : f \in FirstChunks, b \in SeqsUpTo(BodyChunks, maxBody)}
\* streams opened by a valid schema chunk, with batches of the smallest and
\* of the largest size
ConcBodyChunks == {BatchChunk(1), BatchChunk(MaxRows), BadBatchChunk}
SchemaStreams(maxBody) ==
    {<<SchemaChunk>> \o b : b \in SeqsUpTo(ConcBodyChunks, maxBody)}

\* ----------------------------------------------------------------- tickets
Catalog == <<"c">>
Namespace == <<"s">>
Tables == {<<"a">>, <<"b">>, <<"[">>}
SafeTables == {<<"a">>, <<"b">>}
BreakingChars == {"["}
\* the ticket (lake, sales, orders)
LakeTicket ==
    [catalog |-> <<"l", "a", "k", "e">>,
     schema |-> <<"s", "a", "l", "e", "s">>,
     table |-> <<"o", "r", "d", "e", "r", "s">>]
Tickets ==
    {[catalog |-> Catalog, schema |-> Namespace, table |-> t] : t \in Tables}
        \cup {LakeTicket}
SafeTickets == {[catalog |-> Catalog, schema |-> Namespace, table |-> t] : t \in SafeTables}
NoTicket == [catalog |-> <<>>, schema |-> <<>>, table |-> <<>>]

\* a path composed without the table name
FormatPathNoTable(t) ==
    t.catalog \o <<"/">> \o t.schema \o <<".", "p", "a", "r", "q", "u", "e", "t">>

\* a path composed with catalog and namespace in each other's place
FormatPathSwapped(t) ==
    t.schema \o <<"/">> \o t.catalog \o <<"/">> \o t.table
        \o <<".", "p", "a", "r", "q", "u", "e", "t">>

\* format!("{}/{}/{}.parquet", catalog, schema, table)
FormatPath(t) ==
    t.catalog \o <<"/">> \o t.schema \o <<"/">> \o t.table
        \o <<".", "p", "a", "r", "q", "u", "e", "t">>

\* a parser that takes every path
ParseTableUrlLax(path) == [ok |-> TRUE, url |-> <<"/">> \o path]

\* ListingTableUrl::parse(format!("/{}", path)): rejects a path holding a
\* character the url/glob parser cannot take
ParseTableUrl(path) ==
    LET url == <<"/">> \o path
    IN [ok |-> \A i \in 1..Len(url) : url[i] \notin BreakingChars, url |-> url]

Paths == {FormatPath(t) : t \in Tickets}

\* ---------------------------------------------------------------- outcomes
\* msg is what a Status names in its message beyond the cause: the path
NoOutcome == [t |-> "none", kind |-> "", v |-> 0, msg |-> <<>>]
OkOutcome(rows) == [t |-> "ok", kind |-> "", v |-> rows, msg |-> <<>>]
StatusOutcome(kind) == [t |-> "err", kind |-> kind, v |-> 0, msg |-> <<>>]
PanicOutcome(cause) == [t |-> "panic", kind |-> cause, v |-> 0, msg |-> <<>>]
\* Status::internal(format!("invalid table url {path}: {e}"))
PathErrorOutcome(p) == [t |-> "err", kind |-> "internal", v |-> 0, msg |-> p]

NoObject == [present |-> FALSE, batches |-> <<>>]

VARIABLES
    dedicated,  \* cfg(feature = "dedicated-executor")
    ticket,     \* CommandStatementIngest of each request
    pc,         \* position of each handler
    inflight,   \* chunks the client has sent, not yet accepted by the server
    inbox,      \* chunks accepted by the network layer, not yet read
    peeked,     \* lookahead slot of PeekableFlightDataStream
    first,      \* first_flight_data, the chunk peek() returned
    schema,     \* schema decoded from the first chunk
    path,       \* composed path
    n,          \* scan counter
    markers,    \* "processing FlightData # n" lines printed
    seen,       \* chunks the scan stage forwarded to the batch decoder
    staged,     \* batches write_all has taken, not yet committed
    store,      \* object store: path -> object
    lastCommit, \* request whose overwrite of a path completed last
    outcome,    \* what the caller of each request got
    aborted,    \* how the client cut the stream, if it did
    orig        \* the whole chunk sequence of the request as delivered

vars == <<dedicated, ticket, pc, inflight, inbox, peeked, first, schema, path,
          n, markers, seen, staged, store, lastCommit, outcome, aborted, orig>>

\* --------------------------------------------------------- pure operators
RECURSIVE SumRows(_)
SumRows(bs) == IF bs = <<>> THEN 0 ELSE Head(bs).n + SumRows(Tail(bs))

\* a peek that takes the chunk out of the stream as next() would
PeekStreamConsuming(s) ==
    IF s.rest = <<>> THEN s ELSE [slot |-> <<>>, rest |-> Tail(s.rest)]

\* PeekableFlightDataStream::peek on an opened stream [slot, rest]: fill the
\* lookahead slot from the inner stream when it is empty; nothing is removed
\* from the pair (slot, rest) taken together
PeekStream(s) ==
    IF s.slot # <<>> \/ s.rest = <<>> THEN s
    ELSE [slot |-> <<Head(s.rest)>>, rest |-> Tail(s.rest)]

\* the item peek() hands back, a reference into the slot: <<>> is None
PeekItem(s) ==
    IF s.slot # <<>> THEN s.slot
    ELSE IF s.rest # <<>> THEN <<Head(s.rest)>>
    ELSE <<>>

\* Stream::next on the peekable stream: the slot first, then the inner stream
NextStream(s) ==
    IF s.slot # <<>> THEN [item |-> s.slot, slot |-> <<>>, rest |-> s.rest]
    ELSE IF s.rest # <<>> THEN [item |-> <<Head(s.rest)>>, slot |-> <<>>, rest |-> Tail(s.rest)]
    ELSE [item |-> <<>>, slot |-> <<>>, rest |-> <<>>]

\* a read of the first item that lets a transport error through
ReadFirstLax(fd) == NoOutcome

\* .as_ref().map_err(|e| Status::failed_precondition(..))?
ReadFirst(fd) == IF fd.k = "err" THEN StatusOutcome("failed_precondition") ELSE NoOutcome

\* a schema decoder that takes every header
SchemaFromBytesLax(fd) == [ok |-> TRUE, out |-> NoOutcome]

\* try_schema_from_flatbuffer_bytes(&first.data_header).map_err(invalid_argument)?
SchemaFromBytes(fd) ==
    IF fd.k = "schema" THEN [ok |-> TRUE, out |-> NoOutcome]
    ELSE [ok |-> FALSE, out |-> StatusOutcome("invalid_argument")]

\* a scan closure that adds one before it prints
ScanStepFromOne(cnt, fd) == [n |-> cnt + 1, marker |-> cnt + 1, item |-> fd]

\* the scan closure: print the counter, add one, forward the item untouched
ScanStep(cnt, fd) == [n |-> cnt + 1, marker |-> cnt, item |-> fd]

\* a decoder that drops a message it cannot decode and goes on
DecodeSkippingBad(fd) ==
    IF fd.k = "err" THEN [t |-> "error", cause |-> "transport", rows |-> 0]
    ELSE IF fd.k = "batch" THEN [t |-> "batch", cause |-> "", rows |-> fd.n]
    ELSE [t |-> "skip", cause |-> "", rows |-> 0]

\* FlightRecordBatchStream over the scanned stream: a transport error or an
\* undecodable / mismatching message is an Err element, the schema message
\* yields no batch, a data message yields its batch
DecodeFlightData(fd) ==
    IF fd.k = "err" THEN [t |-> "error", cause |-> "transport", rows |-> 0]
    ELSE IF fd.k = "schema" THEN [t |-> "skip", cause |-> "", rows |-> 0]
    ELSE IF fd.k = "batch" THEN [t |-> "batch", cause |-> "", rows |-> fd.n]
    ELSE [t |-> "error", cause |-> "decode", rows |-> 0]

\* a spawn that lands on the runtime it was called from
WritePoolInline(ded) == "net"

\* a handler that turns the JoinError of the spawned task into a Status
WriteFailureAsStatus(ded, cause) ==
    IF ded THEN StatusOutcome("internal") ELSE PanicOutcome(cause)

\* a write that reports the batches it wrote, not their rows
RowsWrittenAsBatches(batches) == Len(batches)

\* DedicatedExecutor::spawn runs the future on the executor's own runtime
ExecutorPool == "exec"
\* what awaiting the spawned task yields: the task's own result, its panic
\* carried over as a JoinError
SpawnResult(res) == res

\* the pool write_all runs on: exec.spawn(..) under the feature, inline otherwise
WritePool(ded) == IF ded THEN ExecutorPool ELSE "net"

\* the handler's view of a failed write: write_all(..).await.unwrap(), and
\* under the feature the JoinError of the spawned task unwrapped again
WriteFailure(ded, cause) ==
    IF ded THEN SpawnResult(PanicOutcome(cause)) ELSE PanicOutcome(cause)

\* what write_all reports: the rows of every batch it wrote
RowsWritten(batches) == SumRows(batches)

\* Ok(rows_written as i64)
WriteSuccess(rows) == OkOutcome(rows)

\* a sink that counts the rows and completes no file
SinkCommitNothing(st, p, batches) == st

\* a sink that puts its file at every path of the store
SinkCommitEverywhere(st, p, batches) ==
    [q \in DOMAIN st |-> [present |-> TRUE, batches |-> batches]]

\* InsertOp::Append: the batches are added to the object already there
SinkCommitAppend(st, p, batches) ==
    [st EXCEPT ![p] = [present |-> TRUE, batches |-> st[p].batches \o batches]]

\* InsertOp::Overwrite on a single-file table path: the object at the path
\* is replaced by the batches of this write
SinkCommit(st, p, batches) ==
    [st EXCEPT ![p] = [present |-> TRUE, batches |-> batches]]

\* ------------------------------------------------------------------ pools
Encoding(pool) == {q \in Requests : pc[q] = "encode" /\ WritePool(dedicated) = pool}
Workers(pool) == IF pool = "net" THEN NetWorkers ELSE ExecWorkers
PoolFree(pool) == Cardinality(Encoding(pool)) < Workers(pool)

\* the peekable stream of request r as the handler sees it
StreamOf(r) == [slot |-> peeked[r], rest |-> inbox[r]]
\* the client has closed its side and everything was accepted
StreamEnded(r) == inflight[r] = <<>> /\ inbox[r] = <<>> /\ peeked[r] = <<>>

\* a handler that starts the write again when it failed
FinishRetryWrite(r, out) ==
    IF out.t = "panic" /\ pc[r] \in {"write", "encode"}
    THEN /\ pc' = [pc EXCEPT ![r] = "spawn"]
         /\ UNCHANGED outcome
    ELSE /\ pc' = [pc EXCEPT ![r] = "done"]
         /\ outcome' = [outcome EXCEPT ![r] = out]

\* the handler returns (or its task ends): the caller has its answer
Finish(r, out) ==
    /\ pc' = [pc EXCEPT ![r] = "done"]
    /\ outcome' = [outcome EXCEPT ![r] = out]

\* ------------------------------------------------------------------- init
EmptyStore == [p \in Paths |-> NoObject]

InitCommon ==
    /\ dedicated \in BOOLEAN
    /\ ticket \in [Requests -> Tickets \cup {NoTicket}]
    /\ inbox = [r \in Requests |-> <<>>]
    /\ peeked = [r \in Requests |-> <<>>]
    /\ first = [r \in Requests |-> <<>>]
    /\ schema = [r \in Requests |-> FALSE]
    /\ path = [r \in Requests |-> <<>>]
    /\ n = [r \in Requests |-> 0]
    /\ markers = [r \in Requests |-> <<>>]
    /\ seen = [r \in Requests |-> <<>>]
    /\ staged = [r \in Requests |-> <<>>]
    /\ store = EmptyStore
    /\ lastCommit = [p \in Paths |-> 0]
    /\ outcome = [r \in Requests |-> NoOutcome]
    /\ aborted = [r \in Requests |-> "no"]

\* one request, every stream and every ticket
Init ==
    /\ InitCommon
    /\ ticket[1] \in Tickets /\ ticket[2] = NoTicket
    /\ inflight \in [Requests -> Streams(MaxBatches)]
    /\ inflight[2] = <<>>
    /\ orig = inflight
    /\ pc = [r \in Requests |-> IF r = 1 THEN "peek" ELSE "idle"]

\* two requests in flight at once, each opened by a schema chunk; request 1
\* names table a, request 2 the same table or another one
InitConc ==
    /\ InitCommon
    /\ ticket \in [Requests -> SafeTickets]
    /\ ticket[1].table = <<"a">>
    /\ inflight \in [Requests -> SchemaStreams(ConcMaxBatches)]
    /\ orig = inflight
    /\ pc = [r \in Requests |-> "peek"]

\* ---------------------------------------------------------------- actions
\* the network layer (connection task, network pool) accepts the next chunk
Accept(r) ==
    /\ pc[r] # "idle"
    /\ inflight[r] # <<>>
    /\ PoolFree("net")
    /\ inbox' = [inbox EXCEPT ![r] = Append(@, Head(inflight[r]))]
    /\ inflight' = [inflight EXCEPT ![r] = Tail(@)]
    /\ UNCHANGED <<dedicated, ticket, pc, peeked, first, schema, path, n, markers,
                   seen, staged, store, lastCommit, outcome, aborted, orig>>

\* the client cuts the stream mid-ingest, while the write is running: what
\* it had not yet sent is replaced by a transport error, or the stream just
\* ends
ClientAbort(r, how) ==
    /\ pc[r] \in {"write", "encode"}
    /\ aborted[r] = "no"
    /\ inflight[r] # <<>>
    /\ LET tail == IF how = "err" THEN <<ErrChunk>> ELSE <<>>
           kept == SubSeq(orig[r], 1, Len(orig[r]) - Len(inflight[r]))
       IN /\ inflight' = [inflight EXCEPT ![r] = tail]
          /\ orig' = [orig EXCEPT ![r] = kept \o tail]
    /\ aborted' = [aborted EXCEPT ![r] = how]
    /\ UNCHANGED <<dedicated, ticket, pc, inbox, peeked, first, schema, path, n,
                   markers, seen, staged, store, lastCommit, outcome>>

\* lines 60-65: peek().await.expect(..).as_ref().map_err(..)?
Peek(r) ==
    /\ pc[r] = "peek"
    /\ PoolFree("net")
    /\ inbox[r] # <<>> \/ StreamEnded(r)
    /\ LET s == PeekStream(StreamOf(r))
           item == PeekItem(StreamOf(r))
       IN /\ peeked' = [peeked EXCEPT ![r] = s.slot]
          /\ inbox' = [inbox EXCEPT ![r] = s.rest]
          /\ first' = [first EXCEPT ![r] = item]
          /\ IF item = <<>>
             THEN Finish(r, PanicOutcome("expect"))
             ELSE IF ReadFirst(item[1]).t = "err"
                  THEN Finish(r, ReadFirst(item[1]))
                  ELSE /\ pc' = [pc EXCEPT ![r] = "schema"]
                       /\ UNCHANGED outcome
    /\ UNCHANGED <<dedicated, ticket, inflight, schema, path, n, markers, seen,
                   staged, store, lastCommit, aborted, orig>>

\* lines 67-71
ExtractSchema(r) ==
    /\ pc[r] = "schema"
    /\ PoolFree("net")
    /\ LET res == SchemaFromBytes(first[r][1])
       IN IF res.ok
          THEN /\ schema' = [schema EXCEPT ![r] = TRUE]
               /\ pc' = [pc EXCEPT ![r] = "resolve"]
               /\ UNCHANGED outcome
          ELSE /\ Finish(r, res.out)
               /\ UNCHANGED schema
    /\ UNCHANGED <<dedicated, ticket, inflight, inbox, peeked, first, path, n,
                   markers, seen, staged, store, lastCommit, aborted, orig>>

\* lines 80-87
ResolvePath(r) ==
    /\ pc[r] = "resolve"
    /\ PoolFree("net")
    /\ path' = [path EXCEPT ![r] = FormatPath(ticket[r])]
    /\ IF ParseTableUrl(FormatPath(ticket[r])).ok
       THEN /\ pc' = [pc EXCEPT ![r] = "spawn"]
            /\ UNCHANGED outcome
       ELSE Finish(r, PathErrorOutcome(FormatPath(ticket[r])))
    /\ UNCHANGED <<dedicated, ticket, inflight, inbox, peeked, first, schema, n,
                   markers, seen, staged, store, lastCommit, aborted, orig>>

\* lines 89-121: the sink is configured and write_all starts on its pool
StartWrite(r) ==
    /\ pc[r] = "spawn"
    /\ PoolFree("net")
    /\ pc' = [pc EXCEPT ![r] = "write"]
    /\ UNCHANGED <<dedicated, ticket, inflight, inbox, peeked, first, schema, path,
                   n, markers, seen, staged, store, lastCommit, outcome, aborted, orig>>

\* write_all pulls the next element of the record batch stream: the scan
\* stage forwards one chunk, the decoder turns it into a batch or an error
WritePull(r) ==
    /\ pc[r] = "write"
    /\ PoolFree(WritePool(dedicated))
    /\ peeked[r] # <<>> \/ inbox[r] # <<>>
    /\ LET nx == NextStream(StreamOf(r))
           sc == ScanStep(n[r], nx.item[1])
           d == DecodeFlightData(sc.item)
       IN /\ peeked' = [peeked EXCEPT ![r] = nx.slot]
          /\ inbox' = [inbox EXCEPT ![r] = nx.rest]
          /\ n' = [n EXCEPT ![r] = sc.n]
          /\ markers' = [markers EXCEPT ![r] = Append(@, sc.marker)]
          /\ seen' = [seen EXCEPT ![r] = Append(@, sc.item)]
          /\ IF d.t = "error"
             THEN /\ Finish(r, WriteFailure(dedicated, d.cause))
                  /\ staged' = [staged EXCEPT ![r] = <<>>]
             ELSE IF d.t = "batch"
                  THEN /\ staged' = [staged EXCEPT ![r] = Append(@, [src |-> r, n |-> d.rows])]
                       /\ pc' = [pc EXCEPT ![r] = "encode"]
                       /\ UNCHANGED outcome
                  ELSE UNCHANGED <<staged, pc, outcome>>
    /\ UNCHANGED <<dedicated, ticket, inflight, first, schema, path, store,
                   lastCommit, aborted, orig>>

\* the column encoder is done with the batch it held a worker for
EncodeDone(r) ==
    /\ pc[r] = "encode"
    /\ pc' = [pc EXCEPT ![r] = "write"]
    /\ UNCHANGED <<dedicated, ticket, inflight, inbox, peeked, first, schema, path,
                   n, markers, seen, staged, store, lastCommit, outcome, aborted, orig>>

\* the batch stream is exhausted: the file is completed at the table path
Commit(r) ==
    /\ pc[r] = "write"
    /\ PoolFree(WritePool(dedicated))
    /\ StreamEnded(r)
    /\ store' = SinkCommit(store, path[r], staged[r])
    /\ lastCommit' = [lastCommit EXCEPT ![path[r]] = r]
    /\ pc' = [pc EXCEPT ![r] = "written"]
    /\ UNCHANGED <<dedicated, ticket, inflight, inbox, peeked, first, schema, path,
                   n, markers, seen, staged, outcome, aborted, orig>>

\* the store cannot be reached or the encoder fails: write_all returns Err
StoreFail(r) ==
    /\ pc[r] \in {"write", "encode"}
    /\ staged' = [staged EXCEPT ![r] = <<>>]
    /\ Finish(r, WriteFailure(dedicated, "io"))
    /\ UNCHANGED <<dedicated, ticket, inflight, inbox, peeked, first, schema, path,
                   n, markers, seen, store, lastCommit, aborted, orig>>

\* lines 123-127
Return(r) ==
    /\ pc[r] = "written"
    /\ PoolFree("net")
    /\ Finish(r, WriteSuccess(RowsWritten(staged[r])))
    /\ UNCHANGED <<dedicated, ticket, inflight, inbox, peeked, first, schema, path,
                   n, markers, seen, staged, store, lastCommit, aborted, orig>>

Next ==
    \E r \in Requests :
        \/ Accept(r)
        \/ \E how \in {"err", "eof"} : ClientAbort(r, how)
        \/ Peek(r)
        \/ ExtractSchema(r)
        \/ ResolvePath(r)
        \/ StartWrite(r)
        \/ WritePull(r)
        \/ EncodeDone(r)
        \/ Commit(r)
        \/ StoreFail(r)
        \/ Return(r)

\* two requests in flight at once, each sending a schema and plain batches
InitPools ==
    /\ InitConc
    /\ \A r \in Requests : \A i \in 2..Len(inflight[r]) : inflight[r][i] = BatchChunk(1)

Spec == Init /\ [][Next]_vars
SpecConc == InitConc /\ [][Next]_vars
\* the network runtime runs a ready connection task whenever it has a free
\* worker; nothing bounds the time a column encoder holds its worker
FairSpecPools == InitPools /\ [][Next]_vars /\ \A r \in Requests : WF_vars(Accept(r))

\* ================================================================= claims
\* the rows a chunk sequence carries, counted chunk by chunk
StreamRows(s) ==
    LET f[i \in 0..Len(s)] == IF i = 0 THEN 0 ELSE f[i - 1] + s[i].n
    IN f[Len(s)]
\* a valid schema chunk followed by decodable batches only
WellFormed(s) ==
    /\ s # <<>>
    /\ s[1] = SchemaChunk
    /\ \A i \in 2..Len(s) : s[i].k = "batch"
PathSafe(t) == \A i \in 1..Len(t.table) : t.table[i] \notin BreakingChars
\* <catalog>/<namespace>/<table>.parquet, joined part by part
DestinationOf(t) ==
    LET parts == <<t.catalog, t.schema, t.table \o <<".", "p", "a", "r", "q", "u", "e", "t">> >>
        join[i \in 1..3] == IF i = 1 THEN parts[1] ELSE join[i - 1] \o <<"/">> \o parts[i]
    IN join[3]
\* the object a request writes when its whole stream is written
OwnObject(r) ==
    [present |-> TRUE,
     batches |-> [i \in 1..(Len(orig[r]) - 1) |-> [src |-> r, n |-> orig[r][i + 1].n]]]

\* C1: for a well-formed chunk stream opened by a valid schema, a returned
\* row count is exactly the sum of the rows of the stream's batches (the
\* schema chunk adds none), and with a path-safe ticket and a store that
\* does not fail the request does return that count.
C1_RowCountIsSum ==
    \A r \in Requests :
        (pc[r] = "done" /\ WellFormed(orig[r])) =>
            /\ outcome[r].t = "ok" => outcome[r].v = StreamRows(orig[r])
            /\ (PathSafe(ticket[r]) /\ outcome[r].kind # "io") =>
                   outcome[r] = OkOutcome(StreamRows(orig[r]))
C1_Witness ==
    /\ pc[1] = "done"
    /\ orig[1] = <<SchemaChunk, BatchChunk(1), BatchChunk(2)>>
    /\ outcome[1] = OkOutcome(3)

\* C2: every finished request ended with a row count or with a structured
\* error of kind invalid-argument, failed-precondition or internal; a
\* failure of the write is an internal error and never anything else.
C2_StructuredOutcome ==
    \A r \in Requests :
        pc[r] = "done" =>
            \/ outcome[r].t = "ok"
            \/ /\ outcome[r].t = "err"
               /\ outcome[r].kind \in {"invalid_argument", "failed_precondition", "internal"}

\* C3: a request whose stream holds no chunk at all ends with an
\* invalid-argument or failed-precondition error, has no schema and has
\* written nothing.
C3_EmptyStreamRejected ==
    \A r \in Requests :
        (pc[r] = "done" /\ orig[r] = <<>>) =>
            /\ outcome[r].t = "err"
            /\ outcome[r].kind \in {"invalid_argument", "failed_precondition"}
            /\ ~schema[r]
            /\ store = EmptyStore

\* C4: once the client has cut the stream mid-ingest, so that the batch
\* sequence gives some batches and then an error element or an early end,
\* the request never returns a row count and commits no object.
C4_AbortIsFailedWrite ==
    \A r \in Requests :
        (aborted[r] # "no" /\ \E i \in 1..Len(orig[r]) : orig[r][i].k = "batch") =>
            /\ outcome[r].t # "ok"
            /\ pc[r] # "written"
            /\ \A p \in Paths : lastCommit[p] # r

\* C5: a batch that fails to decode or mismatches the schema reaches the
\* sink as an error element: it is the last chunk the request reads, the
\* request has failed by then, and no request whose stream holds such a
\* batch returns a row count.
C5_BadBatchNeverCounted ==
    \A r \in Requests :
        /\ \A i \in 1..Len(seen[r]) :
               seen[r][i].k = "badbatch" =>
                   /\ i = Len(seen[r])
                   /\ pc[r] = "done"
                   /\ outcome[r].t = "panic"
                   /\ staged[r] = <<>>
        /\ outcome[r].t = "ok" =>
               \A i \in 1..Len(orig[r]) : orig[r][i].k # "badbatch"
C5_Witness ==
    /\ seen[1] = <<SchemaChunk, BatchChunk(2), BadBatchChunk>>
    /\ Len(orig[1]) = 3
    /\ pc[1] = "done"
    /\ outcome[1] = PanicOutcome("decode")

\* C6: peeking removes nothing.  What was read, the lookahead slot, the
\* accepted chunks and the chunks still to come always make up the request's
\* chunk sequence in its order; between the peek and the start of the write
\* nothing has been read and the slot holds the peeked chunk; the first
\* chunk the decoder gets is the peeked one; a request that returns a row
\* count has read the whole sequence.
C6_LookaheadKeepsStream ==
    \A r \in Requests :
        /\ seen[r] \o peeked[r] \o inbox[r] \o inflight[r] = orig[r]
        /\ pc[r] \in {"schema", "resolve", "spawn"} =>
               /\ seen[r] = <<>>
               /\ first[r] # <<>>
               /\ peeked[r] = first[r]
        /\ seen[r] # <<>> => (first[r] # <<>> /\ seen[r][1] = first[r][1])
        /\ outcome[r].t = "ok" => seen[r] = orig[r]
C6_Witness ==
    /\ pc[1] = "done"
    /\ outcome[1].t = "ok"
    /\ Len(seen[1]) = 3
    /\ seen[1][1] = first[1][1]

C7_InlineOccupiesNetwork ==
    /\ ~dedicated
    /\ pc[1] = "encode"
    /\ inflight[2] # <<>>
    /\ ~PoolFree("net")

\* what the handler answers to a chunk sequence and a ticket, whatever the
\* build: by the first chunk, then the path, then the batches
ExpectedOutcome(s, t) ==
    IF s = <<>> THEN PanicOutcome("expect")
    ELSE IF s[1].k = "err" THEN StatusOutcome("failed_precondition")
    ELSE IF s[1].k # "schema" THEN StatusOutcome("invalid_argument")
    ELSE IF ~PathSafe(t) THEN [StatusOutcome("internal") EXCEPT !.msg = DestinationOf(t)]
    ELSE IF \E i \in 2..Len(s) : s[i].k = "badbatch" THEN PanicOutcome("decode")
    ELSE IF \E i \in 2..Len(s) : s[i].k = "err" THEN PanicOutcome("transport")
    ELSE OkOutcome(StreamRows(s))

\* C8: the build with the dedicated executor and the build without it give
\* the same answer and leave the same store: for every chunk sequence and
\* ticket a finished request has the one outcome the sequence and the
\* ticket determine (or the failure of the store, when the store failed),
\* and the store holds the request's object exactly when it returned a row
\* count.
C8_BuildsAgree ==
    pc[1] = "done" =>
        /\ outcome[1].kind # "io" => outcome[1] = ExpectedOutcome(orig[1], ticket[1])
        /\ outcome[1].kind = "io" => outcome[1] = PanicOutcome("io")
        /\ store = IF outcome[1].t = "ok"
                   THEN [EmptyStore EXCEPT ![path[1]] = OwnObject(1)]
                   ELSE EmptyStore
C8_Witness ==
    /\ dedicated
    /\ pc[1] = "done"
    /\ outcome[1] = PanicOutcome("decode")
    /\ Len(seen[1]) = 3

\* C9: two concurrent requests with different destinations do not touch
\* each other: a stream of decodable batches written to a store that does
\* not fail returns its own row count, a returned count is the request's
\* own, the object at a request's path is made of its own batches only, and
\* after a successful return it is the whole of the request's output.
C9_DistinctDestinationsIndependent ==
    ticket[1] # ticket[2] =>
        \A r \in Requests :
            /\ (pc[r] = "done" /\ WellFormed(orig[r]) /\ outcome[r].kind # "io") =>
                   outcome[r] = OkOutcome(StreamRows(orig[r]))
            /\ outcome[r].t = "ok" =>
                   /\ outcome[r].v = StreamRows(orig[r])
                   /\ path[r] \in Paths
                   /\ store[path[r]] = OwnObject(r)
            /\ path[r] \in Paths =>
                   \A i \in 1..Len(store[path[r]].batches) :
                       store[path[r]].batches[i].src = r
C9_Witness ==
    /\ ticket[1] # ticket[2]
    /\ \A r \in Requests : pc[r] = "done" /\ outcome[r].t = "ok" /\ outcome[r].v > 0
    /\ outcome[1].v # outcome[2].v

\* C10: two concurrent requests with the same destination: the object at
\* the path is at every moment the whole output of the request whose commit
\* was the last one, never a mixture and never a part, and each request
\* that returns a row count returns its own.
C10_LastWriterWins ==
    ticket[1] = ticket[2] =>
        /\ \A p \in Paths :
               IF lastCommit[p] = 0 THEN store[p] = NoObject
               ELSE store[p] = OwnObject(lastCommit[p])
        /\ \A r \in Requests :
               outcome[r].t = "ok" => outcome[r].v = StreamRows(orig[r])
C10_Witness ==
    /\ ticket[1] = ticket[2]
    /\ \A r \in Requests : pc[r] = "done" /\ outcome[r].t = "ok" /\ outcome[r].v > 0
    /\ outcome[1].v # outcome[2].v
    /\ lastCommit[path[1]] = 1

\* lake/sales/orders.parquet
LakePath ==
    <<"l", "a", "k", "e", "/", "s", "a", "l", "e", "s", "/",
      "o", "r", "d", "e", "r", "s", ".", "p", "a", "r", "q", "u", "e", "t">>

\* C11: the destination is a function of the ticket alone: once resolved,
\* the path of a request is <catalog>/<namespace>/<table>.parquet whatever
\* its stream and the build, (lake, sales, orders) gives
\* lake/sales/orders.parquet, a path-safe ticket is not refused, and
\* resolving has read no chunk and written nothing to the store.
C11_DestinationIsNaming ==
    \A r \in Requests :
        path[r] # <<>> =>
            /\ path[r] = DestinationOf(ticket[r])
            /\ ticket[r] = LakeTicket => path[r] = LakePath
            /\ PathSafe(ticket[r]) => ~(outcome[r].t = "err" /\ outcome[r].kind = "internal")
            /\ pc[r] = "spawn" => (store = EmptyStore /\ seen[r] = <<>> /\ staged[r] = <<>>)
C11_Witness ==
    /\ ticket[1] = LakeTicket
    /\ path[1] = LakePath
    /\ pc[1] = "spawn"

\* C12: a request whose first chunk is a valid schema and whose table name
\* holds a path-breaking character never starts a write, reads no chunk,
\* leaves the store as it was, and ends with an internal error that names
\* the composed path.
C12_BadPathFailsBeforeIo ==
    \A r \in Requests :
        (orig[r] # <<>> /\ orig[r][1] = SchemaChunk /\ ~PathSafe(ticket[r])) =>
            /\ pc[r] \in {"peek", "schema", "resolve", "done"}
            /\ seen[r] = <<>>
            /\ staged[r] = <<>>
            /\ store = EmptyStore
            /\ \A p \in Paths : lastCommit[p] = 0
            /\ pc[r] = "done" =>
                   /\ outcome[r].t = "err"
                   /\ outcome[r].kind = "internal"
                   /\ outcome[r].msg = DestinationOf(ticket[r])
                   /\ \E i \in 1..Len(outcome[r].msg) : outcome[r].msg[i] \in BreakingChars
C12_Witness ==
    /\ ticket[1].table = <<"[">>
    /\ Len(orig[1]) = 3
    /\ pc[1] = "done"
    /\ outcome[1].kind = "internal"
    /\ inflight[1] = <<>>

\* C13: a request whose first chunk carries malformed schema bytes decodes
\* no schema, resolves no path, starts no write, reads no chunk, and ends
\* with an invalid-argument error while the peeked chunk is still in the
\* lookahead slot.
C13_BadSchemaRejected ==
    \A r \in Requests :
        (orig[r] # <<>> /\ orig[r][1] = BadSchemaChunk) =>
            /\ ~schema[r]
            /\ path[r] = <<>>
            /\ pc[r] \in {"peek", "schema", "done"}
            /\ seen[r] = <<>>
            /\ staged[r] = <<>>
            /\ store = EmptyStore
            /\ pc[r] = "done" =>
                   /\ outcome[r] = StatusOutcome("invalid_argument")
                   /\ peeked[r] = <<BadSchemaChunk>>
                   /\ peeked[r] \o inbox[r] \o inflight[r] = orig[r]
C13_Witness ==
    /\ orig[1] = <<BadSchemaChunk, BatchChunk(1), BatchChunk(2)>>
    /\ pc[1] = "done"
    /\ outcome[1] = StatusOutcome("invalid_argument")
    /\ inbox[1] = <<BatchChunk(1), BatchChunk(2)>>

\* C14: a request that has returned a row count, or whose write_all has
\* returned, has read its whole chunk sequence to the end, and an object is
\* at its path: its own complete output whenever its commit was the last one
\* at that path.
C14_SuccessImpliesCommit ==
    \A r \in Requests :
        (outcome[r].t = "ok" \/ pc[r] = "written") =>
            /\ seen[r] = orig[r]
            /\ StreamEnded(r)
            /\ path[r] \in Paths
            /\ store[path[r]].present
            /\ lastCommit[path[r]] \in Requests
            /\ lastCommit[path[r]] = r => store[path[r]] = OwnObject(r)
C14_Witness ==
    /\ pc[1] = "done"
    /\ outcome[1].t = "ok"
    /\ outcome[1].v = MaxRows
    /\ pc[2] \in {"peek", "schema", "resolve", "spawn"}
    /\ store[path[1]] = OwnObject(1)

\* C15: the store changes only when a write completes, and a completing
\* write of request r replaces the object at <catalog>/<namespace>/<table>
\* .parquet by the batches of r and nothing else, whatever was there before,
\* and leaves every other path as it was.
C15_OverwriteReplaces ==
    [][/\ \A r \in Requests :
              (pc[r] = "write" /\ pc'[r] = "written") =>
                  store' = [store EXCEPT ![DestinationOf(ticket[r])] = OwnObject(r)]
       /\ store' # store => \E r \in Requests : pc[r] = "write" /\ pc'[r] = "written"]_vars
C15_Witness ==
    /\ ticket[1] = ticket[2]
    /\ \A r \in Requests : pc[r] = "done" /\ outcome[r].t = "ok"
    /\ outcome[1].v > outcome[2].v
    /\ outcome[2].v > 0
    /\ lastCommit[path[2]] = 2
    /\ store[path[2]] = OwnObject(2)

\* the stages of the handler in the order of the code
StageRank(p) ==
    CASE p = "idle" -> 0
      [] p = "peek" -> 1
      [] p = "schema" -> 2
      [] p = "resolve" -> 3
      [] p = "spawn" -> 4
      [] p \in {"write", "encode"} -> 5
      [] p = "written" -> 6
      [] p = "done" -> 7

\* C16: nothing is tried twice.  In every step a handler stays in its stage
\* or moves to a later one, the peeked chunk, the schema and the path are
\* set once and kept, the chunks read grow by at most one chunk and are
\* always the front of the chunk sequence, and a finished request (failed
\* or not) changes nothing any more.
C16_NoRetry ==
    [][\A r \in Requests :
           /\ StageRank(pc'[r]) >= StageRank(pc[r])
           /\ first[r] # <<>> => first'[r] = first[r]
           /\ schema[r] => schema'[r]
           /\ path[r] # <<>> => path'[r] = path[r]
           /\ Len(seen'[r]) \in {Len(seen[r]), Len(seen[r]) + 1}
           /\ Len(seen'[r]) <= Len(orig'[r])
           /\ seen'[r] = SubSeq(orig'[r], 1, Len(seen'[r]))
           /\ SubSeq(seen'[r], 1, Len(seen[r])) = seen[r]
           /\ pc[r] = "done" =>
                  /\ pc'[r] = "done"
                  /\ outcome'[r] = outcome[r]
                  /\ seen'[r] = seen[r]
                  /\ staged'[r] = staged[r]
                  /\ peeked'[r] = peeked[r]
                  /\ store' = store]_vars
C16_Witness ==
    /\ orig[1] = <<SchemaChunk, BadBatchChunk, BatchChunk(1)>>
    /\ pc[1] = "done"
    /\ outcome[1].t = "panic"
    /\ seen[1] = <<SchemaChunk, BadBatchChunk>>
    /\ inbox[1] = <<BatchChunk(1)>>

\* C17: the scan stage changes nothing it forwards.  The chunks forwarded by
\* each request are the front of its own chunk sequence, errors included, in
\* order; the k-th of them was printed with marker k-1 by a counter of the
\* request's own; and a write that saw the end of the stream had been
\* forwarded every chunk.
C17_ScanIsTransparent ==
    \A r \in Requests :
        /\ Len(seen[r]) <= Len(orig[r])
        /\ seen[r] = SubSeq(orig[r], 1, Len(seen[r]))
        /\ n[r] = Len(seen[r])
        /\ Len(markers[r]) = Len(seen[r])
        /\ \A k \in 1..Len(markers[r]) : markers[r][k] = k - 1
        /\ (pc[r] = "written" \/ outcome[r].t = "ok") => seen[r] = orig[r]
C17_Witness ==
    /\ markers[1] = <<0, 1>>
    /\ markers[2] = <<0, 1>>
    /\ seen[1][2] = BadBatchChunk
    /\ seen[2][2] = BatchChunk(1)

\* C18: the stages come in the order schema, path, write, and nothing is
\* taken from the stream before the write pulls.  A path is only resolved
\* after the schema was decoded from the peeked chunk; a write only starts,
\* a chunk is only read and the store only changes after a path that parses
\* was resolved; up to the start of the write every chunk is still in the
\* stream and the store is untouched; and so it is for every request
\* answered with a Status.
C18_StageOrderAndLaziness ==
    \A r \in Requests :
        /\ path[r] # <<>> =>
               (schema[r] /\ first[r] = <<SchemaChunk>>)
        /\ schema[r] => first[r] = <<SchemaChunk>>
        /\ (pc[r] \in {"spawn", "write", "encode", "written"}
               \/ seen[r] # <<>> \/ staged[r] # <<>>
               \/ \E p \in Paths : lastCommit[p] = r) =>
               /\ schema[r]
               /\ path[r] = DestinationOf(ticket[r])
               /\ PathSafe(ticket[r])
        /\ pc[r] \in {"peek", "schema", "resolve", "spawn"} =>
               /\ seen[r] = <<>>
               /\ n[r] = 0
               /\ peeked[r] \o inbox[r] \o inflight[r] = orig[r]
               /\ store = EmptyStore
        /\ outcome[r].t = "err" =>
               /\ seen[r] = <<>>
               /\ n[r] = 0
               /\ staged[r] = <<>>
               /\ peeked[r] \o inbox[r] \o inflight[r] = orig[r]
               /\ store = EmptyStore
C18_Witness ==
    /\ pc[1] = "done"
    /\ outcome[1].t = "err"
    /\ outcome[1].kind = "internal"
    /\ schema[1]
    /\ peeked[1] \o inbox[1] = orig[1]
    /\ Len(orig[1]) = 3

\* C19: what the first chunk decides.  A transport error as first element
\* ends the request with failed-precondition and neither a schema nor a
\* path nor a write is ever tried; a readable first chunk with malformed
\* schema bytes ends it with invalid-argument, also when the ticket's path
\* would not parse.
C19_FirstChunkPrecedence ==
    \A r \in Requests :
        orig[r] # <<>> =>
            /\ orig[r][1] = ErrChunk =>
                   /\ pc[r] \in {"peek", "done"}
                   /\ ~schema[r]
                   /\ path[r] = <<>>
                   /\ seen[r] = <<>>
                   /\ store = EmptyStore
                   /\ pc[r] = "done" => outcome[r] = StatusOutcome("failed_precondition")
            /\ (orig[r][1] = BadSchemaChunk /\ pc[r] = "done") =>
                   /\ outcome[r] = StatusOutcome("invalid_argument")
                   /\ path[r] = <<>>
C19_Witness ==
    /\ ~PathSafe(ticket[1])
    /\ orig[1] # <<>>
    /\ orig[1][1] = BadSchemaChunk
    /\ pc[1] = "done"
    /\ outcome[1] = StatusOutcome("invalid_argument")
\* the other case: a transport error as first element
C19_FirstErrorReached ==
    /\ orig[1] # <<>>
    /\ orig[1][1] = ErrChunk
    /\ pc[1] = "done"
    /\ outcome[1] = StatusOutcome("failed_precondition")

====
